---- MODULE Spec2Model ----
(***************************************************************************)
(* Model of the audio-to-notes pipeline (src/app.py, src/windows_entry.py):*)
(* chunked transcription, temporary workspace lifecycle, existing-output   *)
(* detection, per-file error isolation and the scan-until-fixpoint loop.   *)
(*                                                                         *)
(* File names are sequences of tokens.  A token is one character of a      *)
(* title ("a", "_", "2", "[", ...), one digit of a timestamp, or a whole   *)
(* dotted component (".wav", ".converted") or output marker                *)
(* ("-transcription").  Durations are kept as the pair the wave header     *)
(* gives, (n_frames, framerate), so seconds are the rational               *)
(* n_frames / framerate.                                                   *)
(***************************************************************************)
EXTENDS Integers, Sequences, FiniteSets, TLC

(***************************************************************************)
(* Bounds of the model                                                     *)
(***************************************************************************)
MaxClock == 0
MaxFrames == 2
MaxSplitFrames == 130
MaxSplitChunk == 41
MaxSegFrames == 4
MaxSegChunk == 2
MaxFileClock == 1

(***************************************************************************)
(* Names                                                                   *)
(***************************************************************************)
SUPPORTED_EXTENSIONS ==
    {".wav", ".flac", ".mp4a", ".mp3", ".ogg", ".m4a", ".aac", ".wma", ".opus", ".mp4"}

\* dotted components that occur as the last component of a modelled name
ExtTokens == {".wav", ".WAV", ".mp3", ".MP3", ".txt", ".converted"}

\* a comparison of the suffix that keeps its case
LowerKeepsCase(tok) == tok

\* str.lower() on the dotted components of the model
Lower(tok) ==
    CASE tok = ".WAV" -> ".wav"
      [] tok = ".MP3" -> ".mp3"
      [] OTHER -> tok

\* Path.suffix: the last dotted component, "" when there is none
Suffix(name) ==
    IF Len(name) > 1 /\ name[Len(name)] \in ExtTokens THEN name[Len(name)] ELSE ""

\* Path.stem: the name without its suffix
Stem(name) ==
    IF Suffix(name) = "" THEN name ELSE SubSeq(name, 1, Len(name) - 1)

\* str.endswith(".converted.wav")
EndsWithConvertedWav(name) ==
    /\ Len(name) >= 2
    /\ name[Len(name) - 1] = ".converted"
    /\ name[Len(name)] = ".wav"

\* input_path.with_suffix(input_path.suffix + ".converted.wav")
ConvertedName(name) == name \o <<".converted", ".wav">>

Digit(d) ==
    CASE d = 0 -> "0" [] d = 1 -> "1" [] d = 2 -> "2" [] d = 3 -> "3" [] d = 4 -> "4"
      [] d = 5 -> "5" [] d = 6 -> "6" [] d = 7 -> "7" [] d = 8 -> "8" [] OTHER -> "9"

\* datetime.now().strftime(...): fixed width, zero padded, so that text order
\* is chronological order; two digits stand for the fourteen of the source
Timestamp(t) == <<Digit((t \div 10) % 10), Digit(t % 10)>>

TransSuffix == <<"-transcription", ".txt">>
NotesSuffix == <<"-notes", ".txt">>

TranscriptionPath(base_title, timestamp) == base_title \o <<"_">> \o timestamp \o TransSuffix
NotesPath(base_title, timestamp) == base_title \o <<"_">> \o timestamp \o NotesSuffix

(***************************************************************************)
(* Path.glob: fnmatch of one name against one pattern.  "*" matches any    *)
(* run of tokens, "?" one token, "[" .. "]" one token out of the enclosed  *)
(* ones; a "[" that is never closed is an ordinary character.  Ranges and  *)
(* negation need "-" and "!" inside the brackets, which no modelled title  *)
(* contains.                                                               *)
(***************************************************************************)
\* index of the "]" closing the class opened at p[1], 0 when there is none;
\* a "]" right after the "[" is a member of the class, not its end
ClassEnd(p) ==
    LET cands == {j \in 3..Len(p) : p[j] = "]"}
    IN IF cands = {} THEN 0 ELSE CHOOSE j \in cands : \A k \in cands : j <= k

RECURSIVE GlobMatch(_, _)
GlobMatch(p, s) ==
    IF p = <<>> THEN s = <<>>
    ELSE IF Head(p) = "*"
         THEN GlobMatch(Tail(p), s) \/ (s # <<>> /\ GlobMatch(p, Tail(s)))
    ELSE IF Head(p) = "?"
         THEN s # <<>> /\ GlobMatch(Tail(p), Tail(s))
    ELSE IF Head(p) = "[" /\ ClassEnd(p) # 0
         THEN /\ s # <<>>
              /\ \E k \in 2..(ClassEnd(p) - 1) : p[k] = Head(s)
              /\ GlobMatch(SubSeq(p, ClassEnd(p) + 1, Len(p)), Tail(s))
    ELSE s # <<>> /\ Head(s) = Head(p) /\ GlobMatch(Tail(p), Tail(s))

\* find_existing_outputs: the two globs over the output directory
find_existing_trans(dir, base_title) ==
    {f \in dir : GlobMatch(base_title \o <<"_", "*">> \o TransSuffix, f)}

find_existing_notes(dir, base_title) ==
    {f \in dir : GlobMatch(base_title \o <<"_", "*">> \o NotesSuffix, f)}

(***************************************************************************)
(* Pure helpers of the transcription path                                  *)
(***************************************************************************)
Min(a, b) == IF a <= b THEN a ELSE b
Max(a, b) == IF a >= b THEN a ELSE b

\* math.ceil(a / b) for a >= 0, b > 0
CeilDiv(a, b) == (a + b - 1) \div b

\* chunks_needed with the quotient rounded down instead of up
chunks_needed_floor(n_frames, framerate, chunk_length_sec) ==
    Max(1, n_frames \div (framerate * chunk_length_sec))

\* split_wav: max(1, math.ceil(duration / chunk_length_sec)), with
\* duration = n_frames / framerate
chunks_needed(n_frames, framerate, chunk_length_sec) ==
    Max(1, CeilDiv(n_frames, framerate * chunk_length_sec))

\* a comparison that sends a duration equal to the chunk length to split_wav
FitsOneChunkStrict(n_frames, framerate, chunk_length_sec) ==
    n_frames < chunk_length_sec * framerate

\* transcribe_audio: duration <= chunk_length_sec
FitsOneChunk(n_frames, framerate, chunk_length_sec) ==
    n_frames <= chunk_length_sec * framerate

\* the i-th (0-based) extraction of split_wav: ffmpeg -ss start -t chunk_length_sec;
\* first/last are the frames [first, last) the tool emits, clipped to the tail
Chunk(i, n_frames, framerate, chunk_length_sec) ==
    [index |-> i,
     ss    |-> i * chunk_length_sec,
     t     |-> chunk_length_sec,
     first |-> Min(i * chunk_length_sec * framerate, n_frames),
     last  |-> Min((i + 1) * chunk_length_sec * framerate, n_frames)]

\* a join that drops the empty texts
RECURSIVE JoinNonEmpty(_)
JoinNonEmpty(texts) ==
    IF texts = <<>> THEN <<>>
    ELSE IF Head(texts) = <<>> THEN JoinNonEmpty(Tail(texts))
    ELSE IF JoinNonEmpty(Tail(texts)) = <<>> THEN Head(texts)
    ELSE Head(texts) \o <<"\n">> \o JoinNonEmpty(Tail(texts))

\* "\n".join(texts)
RECURSIVE Join(_)
Join(texts) ==
    IF texts = <<>> THEN <<>>
    ELSE IF Len(texts) = 1 THEN texts[1]
    ELSE texts[1] \o <<"\n">> \o Join(Tail(texts))

\* the content of the reply as it is
NotesAsReturned(content) == content

\* generate_notes: content if content else "No notes generated."
NotesOrSentinel(content) == IF content # <<>> THEN content ELSE <<"No notes generated.">>

(***************************************************************************)
(* Inputs of the environment                                               *)
(***************************************************************************)
A_wav == <<"a", ".wav">>
A2_MP3 == <<"a", "_", "2", ".MP3">>
Ab_wav == <<"a", "[", "1", "]", ".wav">>
A_txt == <<"a", ".txt">>
A2_conv == <<"a", "_", "2", ".MP3", ".converted", ".wav">>
D_wav == <<"d", ".wav">>

\* names the folder may hold when the program starts: any of the audio files,
\* and beside them either nothing or a text file, a left-over transcoding
\* artifact and a sub-directory with an audio name
AudioNames == {A_wav, A2_MP3, Ab_wav}
OtherNames == {A_txt, A2_conv, D_wav}
DirNames == {D_wav}
InitialNames == AudioNames \cup OtherNames

\* what the speech engine and the summarization engine may answer; the text
\* of a segment matters to the transcript only, so the runs over folders use
\* one text and the runs of transcribe_audio on its own use SegmentTexts
EngineTexts == {<<"x">>}
SegmentTexts == {<<>>, <<"x">>}
NotesContents == {<<>>, <<"n">>}
\* --chunk-length of the runs over folders; the length of a chunk matters
\* inside transcribe_audio only, which SpecSegments and SpecSplit run over ranges
ChunkLengths == {1}
Framerates == {0, 1}

Perms(S) == {q \in [1..Cardinality(S) -> S] : \A i, j \in 1..Cardinality(S) : q[i] = q[j] => i = j}

(***************************************************************************)
(* State                                                                   *)
(***************************************************************************)
VARIABLES
    files,       \* names of the regular files in the folder
    dirs,        \* names of the sub-directories in the folder
    workspaces,  \* temporary chunk directories that exist (tempfile.mkdtemp)
    now,         \* the wall clock, in seconds
    engine,      \* loaded speech-engine handles and load/close counts
    pc,          \* position of the single thread of control
    run,         \* the invocation: cli_main / windows_entry.main
    scan,        \* frame of process_all_in_folder
    pf,          \* frame of process_file
    ta,          \* frame of transcribe_audio and split_wav
    hist         \* outcome of the scans completed before the current one

vars == <<files, dirs, workspaces, now, engine, pc, run, scan, pf, ta, hist>>

NoPath == <<>>
NoHandle == 0

NoRun == [mode |-> "none", last |-> "none",
          skip_existing |-> FALSE, chunk_length_sec |-> 1]

NoScan == [skip_existing |-> FALSE, audio_files |-> <<>>, idx |-> 0,
           processed_any |-> FALSE, transcriber |-> NoHandle, state |-> "none",
           result |-> FALSE, passed |-> <<>>, handles |-> <<>>]

NoPF == [input_path |-> NoPath, skip_existing |-> FALSE, transcriber |-> NoHandle,
         given |-> NoHandle, timestamp |-> <<>>, transcription_path |-> NoPath,
         notes_path |-> NoPath, wav_path |-> NoPath, should_cleanup_wav |-> FALSE,
         close_transcriber |-> FALSE, transcription |-> <<>>, content |-> <<>>,
         notes |-> <<>>, outcome |-> "none", error |-> "none", converted |-> FALSE,
         wrote_trans |-> FALSE, wrote_notes |-> FALSE]

NoTA == [n_frames |-> 0, framerate |-> 0, chunks_needed |-> 0, temp_dir |-> 0,
         chunk_paths |-> <<>>, texts |-> <<>>, calls |-> <<>>, split |-> "none"]

NoEngine == [open |-> {}, loads |-> 0, closes |-> 0, pf_closes |-> 0]

NoHist == [valid |-> FALSE, skip_existing |-> FALSE, result |-> FALSE]

Init ==
    /\ \E A \in SUBSET AudioNames, O \in {{}, OtherNames} :
          /\ files = (A \cup O) \ DirNames
          /\ dirs = O \cap DirNames
    /\ workspaces = {}
    /\ now = 0
    /\ engine = NoEngine
    /\ pc = "idle"
    /\ run = NoRun
    /\ scan = NoScan
    /\ pf = NoPF
    /\ ta = NoTA
    /\ hist = NoHist

(***************************************************************************)
(* Leaving process_file                                                    *)
(***************************************************************************)
\* every asset that was not skipped counts as processed
AfterAssetAttempted(processed_any, outcome) == processed_any \/ outcome # "skipped"

\* process_all_in_folder: "if result is not None: processed_any = True";
\* an exception is caught and only reported
AfterAsset(processed_any, outcome) == processed_any \/ outcome = "returned"

\* an exception of process_file ends the scan
PFExitAbort(outcome) ==
    IF run.mode = "file" \/ outcome = "raised"
    THEN /\ pc' = "exit"
         /\ run' = [run EXCEPT !.last = IF outcome = "raised" THEN "crashed" ELSE "returned"]
         /\ scan' = IF run.mode = "file" THEN scan ELSE [scan EXCEPT !.state = "raised"]
    ELSE /\ pc' = "scan_next"
         /\ scan' = [scan EXCEPT !.processed_any = @ \/ outcome = "returned"]
         /\ run' = run

\* control leaves process_file: back into the loop of process_all_in_folder,
\* or out of cli_main / windows_entry.main
PFExit(outcome) ==
    IF run.mode = "file"
    THEN /\ pc' = "exit"
         /\ run' = [run EXCEPT !.last = IF outcome = "raised" THEN "crashed" ELSE "returned"]
         /\ scan' = scan
    ELSE /\ pc' = "scan_next"
         /\ scan' = [scan EXCEPT !.processed_any = AfterAsset(@, outcome)]
         /\ run' = run

\* CanaryTranscriber.close()
CloseEngine(e, h, by_process_file) ==
    [e EXCEPT !.open = @ \ {h},
              !.closes = IF by_process_file THEN @ ELSE @ + 1,
              !.pf_closes = IF by_process_file THEN @ + 1 ELSE @]

\* a cleanup that removes the wave file whoever made it
CleanupWavAlways(fs, p) == fs \ {p.wav_path}

\* process_file's finally: "if should_cleanup_wav and wav_path.exists(): wav_path.unlink()"
CleanupWav(fs, p) ==
    IF p.should_cleanup_wav /\ p.wav_path \in fs THEN fs \ {p.wav_path} ELSE fs

\* process_file closes whatever transcriber it used
CloseOwnAlways(e, p) == CloseEngine(e, p.transcriber, TRUE)

\* process_file's finally: "if close_transcriber: transcriber.close()"
CloseOwn(e, p) ==
    IF p.close_transcriber THEN CloseEngine(e, p.transcriber, TRUE) ELSE e

\* the frame of process_file once it has exited: how it exited, what it was
\* called with and the paths it chose; the texts it held are gone
Left(p, outcome, error) ==
    [p EXCEPT !.outcome = outcome, !.error = error,
              !.transcription = <<>>, !.content = <<>>, !.notes = <<>>]

\* the frame of transcribe_audio once it has exited: the name its workspace had
LeftTA(t) == [NoTA EXCEPT !.temp_dir = t.temp_dir]

\* an exception inside transcribe_audio is swallowed and the texts gathered so
\* far are returned
ReturnPartial(error) ==
    /\ files' = CleanupWav(files, pf)
    /\ engine' = CloseOwn(engine, pf)
    /\ pf' = [pf EXCEPT !.transcription = Join(ta.texts)]
    /\ ta' = ta
    /\ pc' = "pf_write_trans"
    /\ UNCHANGED <<run, scan>>

\* an exception leaves transcribe_audio and runs process_file's finally
RaiseFromTranscribe(error) ==
    /\ files' = CleanupWav(files, pf)
    /\ engine' = CloseOwn(engine, pf)
    /\ pf' = Left(pf, "raised", error)
    /\ ta' = LeftTA(ta)
    /\ PFExit("raised")

\* transcribe_audio returned: process_file's finally, then on to line 406
ReturnFromTranscribe(text) ==
    /\ files' = CleanupWav(files, pf)
    /\ engine' = CloseOwn(engine, pf)
    /\ pf' = [pf EXCEPT !.transcription = text]
    /\ pc' = "pf_write_trans"
    /\ UNCHANGED <<run, scan>>

(***************************************************************************)
(* cli_main and windows_entry.main                                         *)
(***************************************************************************)
NewPF(p, skip, h) ==
    [NoPF EXCEPT !.input_path = p, !.skip_existing = skip, !.given = h,
                 !.outcome = "running"]

\* a single-file run that applies the skip policy
StartFileSkipping(p, m) ==
    /\ pc = "idle"
    /\ run' = [mode |-> "file", last |-> "none",
               skip_existing |-> TRUE, chunk_length_sec |-> m]
    /\ pf' = NewPF(p, TRUE, NoHandle)
    /\ pc' = "pf_start"
    /\ UNCHANGED <<files, dirs, workspaces, now, engine, scan, ta, hist>>

\* process_file(target, skip_existing=False) of a single-file run
StartFile(p, m) ==
    /\ pc = "idle"
    /\ run' = [mode |-> "file", last |-> "none",
               skip_existing |-> FALSE, chunk_length_sec |-> m]
    /\ pf' = NewPF(p, FALSE, NoHandle)
    /\ pc' = "pf_start"
    /\ UNCHANGED <<files, dirs, workspaces, now, engine, scan, ta, hist>>

\* cli_main, "if target.is_file()": process_file(target, skip_existing=False)
CliFile ==
    \E p \in files, m \in ChunkLengths : StartFile(p, m)

\* windows_entry.main: process_file(target_path, skip_existing=False), whatever
\* the path is
WindowsMain ==
    \E p \in InitialNames, m \in ChunkLengths : StartFile(p, m)

StartScan(mode, skip, m) ==
    /\ pc = "idle"
    /\ run' = [mode |-> mode, last |-> "none",
               skip_existing |-> skip, chunk_length_sec |-> m]
    /\ pc' = "scan"
    /\ UNCHANGED <<files, dirs, workspaces, now, engine, scan, pf, ta, hist>>

\* cli_main, "elif target.is_dir()" and the no-target branch without loop
CliDir ==
    \E skip \in BOOLEAN, m \in ChunkLengths : StartScan("dir", skip, m)

\* cli_main: run_processing_loop(PROCESSING_FOLDER, ...)
CliLoop ==
    \E skip \in BOOLEAN, m \in ChunkLengths : StartScan("loop", skip, m)

(***************************************************************************)
(* process_all_in_folder and run_processing_loop                           *)
(***************************************************************************)
\* a filter that lets the transcoding artifacts through
IsCandidateByExtension(f) ==
    /\ f \in files
    /\ Lower(Suffix(f)) \in SUPPORTED_EXTENSIONS

\* the filter of the comprehension over input_folder.iterdir()
IsCandidate(f) ==
    /\ f \in files
    /\ Lower(Suffix(f)) \in SUPPORTED_EXTENSIONS
    /\ ~EndsWithConvertedWav(f)

\* what the frame of the scan that just ended leaves for the next one
Completed(s) ==
    [valid |-> s.state = "returned", skip_existing |-> s.skip_existing,
     result |-> s.result]

\* lines 425-437: enumerate the candidates, return False when there are none
Scan ==
    /\ pc = "scan"
    /\ hist' = Completed(scan)
    /\ LET cands == {f \in files \cup dirs : IsCandidate(f)}
       IN IF cands = {}
          THEN /\ scan' = [NoScan EXCEPT !.skip_existing = run.skip_existing,
                                         !.state = "returned", !.result = FALSE]
               /\ pc' = "scan_done"
          ELSE /\ \E order \in Perms(cands) :
                     scan' = [NoScan EXCEPT !.skip_existing = run.skip_existing,
                                            !.audio_files = order, !.state = "loading"]
               /\ pc' = "scan_load"
    /\ engine' = [NoEngine EXCEPT !.open = engine.open]
    /\ UNCHANGED <<files, dirs, workspaces, now, run, pf, ta>>

\* line 438: transcriber = CanaryTranscriber(), which may raise
ScanLoad ==
    /\ pc = "scan_load"
    /\ \/ /\ engine' = [engine EXCEPT !.open = @ \cup {engine.loads + 1}, !.loads = @ + 1]
          /\ scan' = [scan EXCEPT !.transcriber = engine.loads + 1, !.state = "running"]
          /\ pc' = "scan_next"
          /\ run' = run
       \/ /\ scan' = [scan EXCEPT !.state = "raised"]
          /\ pc' = "exit"
          /\ run' = [run EXCEPT !.last = "crashed"]
          /\ engine' = engine
    /\ UNCHANGED <<files, dirs, workspaces, now, pf, ta, hist>>

\* a loop that hands an asset that raised to process_file once more
ScanCallRetrying ==
    /\ pc = "scan_next"
    /\ IF pf.outcome = "raised"
       THEN /\ scan' = [scan EXCEPT !.passed = Append(@, pf.input_path),
                                    !.handles = Append(@, scan.transcriber)]
            /\ pf' = NewPF(pf.input_path, scan.skip_existing, scan.transcriber)
       ELSE /\ scan.idx < Len(scan.audio_files)
            /\ scan' = [scan EXCEPT !.idx = @ + 1,
                                    !.passed = Append(@, scan.audio_files[scan.idx + 1]),
                                    !.handles = Append(@, scan.transcriber)]
            /\ pf' = NewPF(scan.audio_files[scan.idx + 1], scan.skip_existing,
                           scan.transcriber)
    /\ ta' = NoTA
    /\ pc' = "pf_start"
    /\ UNCHANGED <<files, dirs, workspaces, now, engine, run, hist>>

\* lines 441-449: the next audio_file is handed to process_file
ScanCall ==
    /\ pc = "scan_next"
    /\ scan.idx < Len(scan.audio_files)
    /\ scan' = [scan EXCEPT !.idx = @ + 1,
                            !.passed = Append(@, scan.audio_files[scan.idx + 1]),
                            !.handles = Append(@, scan.transcriber)]
    /\ pf' = NewPF(scan.audio_files[scan.idx + 1], scan.skip_existing, scan.transcriber)
    /\ ta' = NoTA
    /\ pc' = "pf_start"
    /\ UNCHANGED <<files, dirs, workspaces, now, engine, run, hist>>

\* lines 454-456: finally transcriber.close(); return processed_any
ScanFinish ==
    /\ pc = "scan_next"
    /\ scan.idx = Len(scan.audio_files)
    /\ engine' = CloseEngine(engine, scan.transcriber, FALSE)
    /\ scan' = [scan EXCEPT !.state = "returned", !.result = scan.processed_any]
    /\ pc' = "scan_done"
    /\ pf' = NoPF
    /\ ta' = NoTA
    /\ UNCHANGED <<files, dirs, workspaces, now, run, hist>>

\* cli_main: "if not processed: print(...)"
DirDone ==
    /\ pc = "scan_done"
    /\ run.mode = "dir"
    /\ pc' = "exit"
    /\ run' = [run EXCEPT !.last = "returned"]
    /\ UNCHANGED <<files, dirs, workspaces, now, engine, scan, pf, ta, hist>>

\* the loop condition inverted
LoopContinuesInverted(processed) == ~processed

\* run_processing_loop: "if not processed: break"
LoopContinues(processed) == processed

LoopCheck ==
    /\ pc = "scan_done"
    /\ run.mode = "loop"
    /\ IF LoopContinues(scan.result)
       THEN pc' = "scan" /\ run' = run
       ELSE pc' = "exit" /\ run' = [run EXCEPT !.last = "halted"]
    /\ UNCHANGED <<files, dirs, workspaces, now, engine, scan, pf, ta, hist>>

(***************************************************************************)
(* process_file                                                            *)
(***************************************************************************)
\* "if skip_existing and trans_files and notes_files"
should_skip(skip_existing, trans_files, notes_files) ==
    skip_existing /\ trans_files # {} /\ notes_files # {}

\* a process_file that transcodes before it decides to skip
PF_StartAtTranscodingFirst(max_clock) ==
    /\ pc = "pf_start"
    /\ LET p == pf.input_path
           base_title == Stem(p)
           listing == files \cup dirs
       IN IF p \notin files
          THEN /\ pf' = Left(pf, "raised", "missing")
               /\ PFExit("raised")
               /\ now' = now
               /\ files' = files
          ELSE IF Lower(Suffix(p)) \notin SUPPORTED_EXTENSIONS
          THEN /\ pf' = Left(pf, "raised", "unsupported")
               /\ PFExit("raised")
               /\ now' = now
               /\ files' = files
          ELSE IF should_skip(pf.skip_existing,
                              find_existing_trans(listing, base_title),
                              find_existing_notes(listing, base_title))
          THEN /\ pf' = Left(pf, "skipped", "none")
               /\ PFExit("skipped")
               /\ now' = now
               /\ files' = IF Lower(Suffix(p)) = ".wav" THEN files
                           ELSE files \cup {ConvertedName(p)}
          ELSE /\ \E t \in now..max_clock :
                     /\ now' = t
                     /\ pf' = [pf EXCEPT
                                 !.timestamp = Timestamp(t),
                                 !.transcription_path = TranscriptionPath(base_title, Timestamp(t)),
                                 !.notes_path = NotesPath(base_title, Timestamp(t))]
               /\ pc' = "pf_convert"
               /\ files' = files
               /\ UNCHANGED <<run, scan>>
    /\ UNCHANGED <<dirs, workspaces, engine, ta, hist>>

\* lines 368-384: existence, extension, skip decision, timestamp and paths;
\* datetime.now() gives a second between the last one seen and max_clock
PF_StartAt(max_clock) ==
    /\ pc = "pf_start"
    /\ LET p == pf.input_path
           base_title == Stem(p)
           listing == files \cup dirs
       IN IF p \notin files
          THEN /\ pf' = Left(pf, "raised", "missing")
               /\ PFExit("raised")
               /\ now' = now
          ELSE IF Lower(Suffix(p)) \notin SUPPORTED_EXTENSIONS
          THEN /\ pf' = Left(pf, "raised", "unsupported")
               /\ PFExit("raised")
               /\ now' = now
          ELSE IF should_skip(pf.skip_existing,
                              find_existing_trans(listing, base_title),
                              find_existing_notes(listing, base_title))
          THEN /\ pf' = Left(pf, "skipped", "none")
               /\ PFExit("skipped")
               /\ now' = now
          ELSE /\ \E t \in now..max_clock :
                     /\ now' = t
                     /\ pf' = [pf EXCEPT
                                 !.timestamp = Timestamp(t),
                                 !.transcription_path = TranscriptionPath(base_title, Timestamp(t)),
                                 !.notes_path = NotesPath(base_title, Timestamp(t))]
               /\ pc' = "pf_convert"
               /\ UNCHANGED <<run, scan>>
    /\ UNCHANGED <<files, dirs, workspaces, engine, ta, hist>>

PF_Start == PF_StartAt(MaxClock)

\* where process_file goes after convert_to_wav: lines 389-392
AfterConvert(p) == IF p.given = NoHandle THEN "pf_load" ELSE "ta_probe"

\* line 387, convert_to_wav: a .wav input is returned as it is; anything else
\* goes through ffmpeg, which may fail and may then leave its output behind
PF_Convert ==
    /\ pc = "pf_convert"
    /\ LET p == pf.input_path
           out == ConvertedName(p)
       IN IF Lower(Suffix(p)) = ".wav"
          THEN /\ pf' = [pf EXCEPT !.wav_path = p, !.should_cleanup_wav = FALSE,
                                   !.transcriber = pf.given]
               /\ files' = files
               /\ pc' = AfterConvert(pf)
               /\ UNCHANGED <<run, scan>>
          ELSE \/ /\ pf' = [pf EXCEPT !.wav_path = out, !.should_cleanup_wav = TRUE,
                                      !.converted = TRUE, !.transcriber = pf.given]
                  /\ files' = files \cup {out}
                  /\ pc' = AfterConvert(pf)
                  /\ UNCHANGED <<run, scan>>
               \/ /\ pf' = Left(pf, "raised", "transcode")
                  /\ \E left \in BOOLEAN : files' = IF left THEN files \cup {out} ELSE files
                  /\ PFExit("raised")
    /\ UNCHANGED <<dirs, workspaces, now, engine, ta, hist>>

\* lines 389-392: "if transcriber is None: transcriber = CanaryTranscriber()";
\* the constructor may raise, and it is called before the try of line 394
PF_Load ==
    /\ pc = "pf_load"
    /\ \/ /\ engine' = [engine EXCEPT !.open = @ \cup {engine.loads + 1}, !.loads = @ + 1]
          /\ pf' = [pf EXCEPT !.transcriber = engine.loads + 1, !.close_transcriber = TRUE]
          /\ pc' = "ta_probe"
          /\ UNCHANGED <<run, scan>>
       \/ /\ pf' = Left(pf, "raised", "load")
          /\ engine' = engine
          /\ PFExit("raised")
    /\ UNCHANGED <<files, dirs, workspaces, now, ta, hist>>

\* a process_file that keeps the transcription to itself
PF_WriteTransNowhere ==
    /\ pc = "pf_write_trans"
    /\ files' = files
    /\ pf' = [pf EXCEPT !.wrote_trans = TRUE]
    /\ ta' = NoTA
    /\ pc' = "pf_notes"
    /\ UNCHANGED <<dirs, workspaces, now, engine, run, scan, hist>>

\* lines 406-407: the transcription file is written
PF_WriteTrans ==
    /\ pc = "pf_write_trans"
    /\ files' = files \cup {pf.transcription_path}
    /\ pf' = [pf EXCEPT !.wrote_trans = TRUE]
    /\ ta' = NoTA
    /\ pc' = "pf_notes"
    /\ UNCHANGED <<dirs, workspaces, now, engine, run, scan, hist>>

\* line 410, generate_notes: the summarization call answers or raises
PF_Notes ==
    /\ pc = "pf_notes"
    /\ \/ /\ \E content \in NotesContents :
                pf' = [pf EXCEPT !.content = content, !.notes = NotesOrSentinel(content)]
          /\ pc' = "pf_write_notes"
          /\ UNCHANGED <<run, scan>>
       \/ /\ pf' = Left(pf, "raised", "summarize")
          /\ PFExit("raised")
    /\ UNCHANGED <<files, dirs, workspaces, now, engine, ta, hist>>

\* lines 411-415: notes is written to the notes file and the two paths are
\* returned
PF_WriteNotes ==
    /\ pc = "pf_write_notes"
    /\ files' = files \cup {pf.notes_path}
    /\ pf' = Left([pf EXCEPT !.wrote_notes = TRUE], "returned", "none")
    /\ PFExit("returned")
    /\ UNCHANGED <<dirs, workspaces, now, engine, ta, hist>>

(***************************************************************************)
(* transcribe_audio and split_wav                                          *)
(***************************************************************************)
\* one answered call of transcriber.transcribe: input 0 is the whole asset,
\* input k the k-th chunk
EngineCall(input, ok, text) == [input |-> input, ok |-> ok, text |-> text]

\* lines 258-268: probe the duration and decide; framerate 0 stands for every
\* wave file get_wav_duration_seconds raises on
TA_ProbeOf(rates, max_frames) ==
    /\ pc = "ta_probe"
    /\ \E f \in rates, n \in 0..max_frames :
          /\ f = 0 => n = 0
          /\ ta' = [NoTA EXCEPT !.n_frames = n, !.framerate = f]
          /\ pc' = IF f = 0 \/ FitsOneChunk(n, f, run.chunk_length_sec)
                   THEN "ta_whole" ELSE "sw_start"
    /\ UNCHANGED <<files, dirs, workspaces, now, engine, run, scan, pf, hist>>

TA_Probe == TA_ProbeOf(Framerates, MaxFrames)

\* lines 262 and 266: one engine call on the whole asset
TA_WholeOf(answers) ==
    /\ pc = "ta_whole"
    /\ \/ \E text \in answers :
             /\ ta' = [ta EXCEPT !.calls = Append(@, EngineCall(0, TRUE, text))]
             /\ ReturnFromTranscribe(text)
       \/ RaiseFromTranscribe("engine")
    /\ UNCHANGED <<dirs, workspaces, now, hist>>

TA_Whole == TA_WholeOf(EngineTexts)

\* tempfile.mkdtemp: a directory that did not exist
FreshDir(existing) == CHOOSE d \in 1..(Cardinality(existing) + 1) : d \notin existing

\* split_wav lines 222-225: duration, chunks_needed, the workspace
SW_Start ==
    /\ pc = "sw_start"
    /\ \/ /\ ta' = [ta EXCEPT
                      !.chunks_needed = chunks_needed(ta.n_frames, ta.framerate,
                                                      run.chunk_length_sec),
                      !.temp_dir = FreshDir(workspaces),
                      !.split = "running"]
          /\ workspaces' = workspaces \cup {FreshDir(workspaces)}
          /\ pc' = "sw_extract"
          /\ UNCHANGED <<files, engine, run, scan, pf>>
       \/ /\ workspaces' = workspaces
          /\ RaiseFromTranscribe("segment")
    /\ UNCHANGED <<dirs, now, hist>>

\* a cleanup that leaves the directory
RmtreeKeeps(ws, temp_dir) == ws

\* split_wav's "except Exception: shutil.rmtree(temp_dir, ignore_errors=True)"
\* and transcribe_audio's "finally: shutil.rmtree(temp_dir, ignore_errors=True)"
Rmtree(ws, temp_dir) == ws \ {temp_dir}

\* an extraction loop that stops at the failed chunk and returns the chunks
\* it has
SW_ExtractPartial ==
    /\ pc = "sw_extract"
    /\ LET i == Len(ta.chunk_paths)
       IN \/ /\ ta' = [ta EXCEPT
                         !.chunk_paths = Append(@, Chunk(i, ta.n_frames, ta.framerate,
                                                         run.chunk_length_sec)),
                         !.split = IF i + 1 = ta.chunks_needed THEN "returned" ELSE @]
             /\ pc' = IF i + 1 = ta.chunks_needed THEN "ta_chunk" ELSE "sw_extract"
             /\ UNCHANGED <<files, workspaces, engine, run, scan, pf>>
          \/ /\ i >= 1
             /\ ta' = [ta EXCEPT !.split = "returned"]
             /\ pc' = "ta_chunk"
             /\ UNCHANGED <<files, workspaces, engine, run, scan, pf>>
    /\ UNCHANGED <<dirs, now, hist>>

\* split_wav lines 227-248: one ffmpeg extraction; a failure removes the
\* workspace and re-raises, the last success returns the list
SW_Extract ==
    /\ pc = "sw_extract"
    /\ LET i == Len(ta.chunk_paths)
       IN \/ /\ ta' = [ta EXCEPT
                         !.chunk_paths = Append(@, Chunk(i, ta.n_frames, ta.framerate,
                                                         run.chunk_length_sec)),
                         !.split = IF i + 1 = ta.chunks_needed THEN "returned" ELSE @]
             /\ pc' = IF i + 1 = ta.chunks_needed THEN "ta_chunk" ELSE "sw_extract"
             /\ UNCHANGED <<files, workspaces, engine, run, scan, pf>>
          \/ /\ workspaces' = Rmtree(workspaces, ta.temp_dir)
             /\ RaiseFromTranscribe("segment")
    /\ UNCHANGED <<dirs, now, hist>>

\* transcribe_audio lines 270-277: the engine call on the next chunk; after the
\* last one the workspace is removed and the texts are joined; a raising call
\* removes the workspace too
TA_ChunkOf(answers) ==
    /\ pc = "ta_chunk"
    /\ LET k == Len(ta.texts) + 1
       IN \/ \E text \in answers :
                /\ ta' = [ta EXCEPT !.texts = Append(@, text),
                                    !.calls = Append(@, EngineCall(k, TRUE, text))]
                /\ IF k = Len(ta.chunk_paths)
                   THEN /\ workspaces' = Rmtree(workspaces, ta.temp_dir)
                        /\ ReturnFromTranscribe(Join(Append(ta.texts, text)))
                   ELSE /\ pc' = "ta_chunk"
                        /\ UNCHANGED <<files, workspaces, engine, run, scan, pf>>
          \/ /\ workspaces' = Rmtree(workspaces, ta.temp_dir)
             /\ RaiseFromTranscribe("engine")
    /\ UNCHANGED <<dirs, now, hist>>

TA_Chunk == TA_ChunkOf(EngineTexts)

(***************************************************************************)
(* Specifications                                                          *)
(***************************************************************************)
Next ==
    \/ CliFile
    \/ WindowsMain
    \/ CliDir
    \/ CliLoop
    \/ Scan
    \/ ScanLoad
    \/ ScanCall
    \/ ScanFinish
    \/ DirDone
    \/ LoopCheck
    \/ PF_Start
    \/ PF_Convert
    \/ PF_Load
    \/ TA_Probe
    \/ TA_Whole
    \/ SW_Start
    \/ SW_Extract
    \/ TA_Chunk
    \/ PF_WriteTrans
    \/ PF_Notes
    \/ PF_WriteNotes

Spec == Init /\ [][Next]_vars

(***************************************************************************)
(* split_wav on its own: a single-file run on a.wav that has reached the   *)
(* call of split_wav, for every duration and chunk length of the bounds    *)
(***************************************************************************)
SplitFramerates == {1, 2}

\* the frame of process_file(a.wav) of a single-file run at line 395
InTranscribe ==
    [NewPF(A_wav, FALSE, NoHandle) EXCEPT
       !.timestamp = Timestamp(0),
       !.transcription_path = TranscriptionPath(Stem(A_wav), Timestamp(0)),
       !.notes_path = NotesPath(Stem(A_wav), Timestamp(0)),
       !.wav_path = A_wav,
       !.transcriber = 1,
       !.close_transcriber = TRUE]

InitSplit ==
    /\ files = {A_wav}
    /\ dirs = {}
    /\ workspaces = {}
    /\ now = 0
    /\ engine = [NoEngine EXCEPT !.open = {1}, !.loads = 1]
    /\ pc = "sw_start"
    /\ \E m \in 1..MaxSplitChunk :
          run = [mode |-> "file", last |-> "none",
                 skip_existing |-> FALSE, chunk_length_sec |-> m]
    /\ scan = NoScan
    /\ pf = InTranscribe
    /\ \E f \in SplitFramerates, n \in 0..MaxSplitFrames :
          /\ ~FitsOneChunk(n, f, run.chunk_length_sec)
          /\ ta = [NoTA EXCEPT !.n_frames = n, !.framerate = f]
    /\ hist = NoHist

NextSplit ==
    \/ SW_Start
    \/ SW_Extract

SpecSplit == InitSplit /\ [][NextSplit]_vars

(***************************************************************************)
(* transcribe_audio on its own: the same run at the call of                *)
(* transcribe_audio, with segments that may come back empty                *)
(***************************************************************************)
InitSegments ==
    /\ files = {A_wav}
    /\ dirs = {}
    /\ workspaces = {}
    /\ now = 0
    /\ engine = [NoEngine EXCEPT !.open = {1}, !.loads = 1]
    /\ pc = "ta_probe"
    /\ \E m \in 1..MaxSegChunk :
          run = [mode |-> "file", last |-> "none",
                 skip_existing |-> FALSE, chunk_length_sec |-> m]
    /\ scan = NoScan
    /\ pf = InTranscribe
    /\ ta = NoTA
    /\ hist = NoHist

TA_ProbeSegments == TA_ProbeOf({0} \cup SplitFramerates, MaxSegFrames)
TA_WholeSegments == TA_WholeOf(SegmentTexts)
TA_ChunkSegments == TA_ChunkOf(SegmentTexts)

NextSegments ==
    \/ TA_ProbeSegments
    \/ TA_WholeSegments
    \/ SW_Start
    \/ SW_Extract
    \/ TA_ChunkSegments

SpecSegments == InitSegments /\ [][NextSegments]_vars

(***************************************************************************)
(* Single-file runs one after the other on the same folder: the program is *)
(* started on a file, ends, and is started again, so a run may find the    *)
(* outputs of the runs before it                                           *)
(***************************************************************************)
InitFile ==
    /\ files = {A2_MP3, A_txt}
    /\ dirs = DirNames
    /\ workspaces = {}
    /\ now = 0
    /\ engine = NoEngine
    /\ pc = "idle"
    /\ run = NoRun
    /\ scan = NoScan
    /\ pf = NoPF
    /\ ta = NoTA
    /\ hist = NoHist

PF_StartFile == PF_StartAt(MaxFileClock)

\* the process has ended and cli_main / windows_entry.main is entered again:
\* nothing is kept but the folder and the clock
Rerun ==
    /\ pc = "exit"
    /\ run.mode = "file"
    /\ pc' = "idle"
    /\ run' = NoRun
    /\ pf' = NoPF
    /\ ta' = NoTA
    /\ engine' = NoEngine
    /\ UNCHANGED <<files, dirs, workspaces, now, scan, hist>>

NextFile ==
    \/ CliFile
    \/ WindowsMain
    \/ PF_StartFile
    \/ PF_Convert
    \/ PF_Load
    \/ TA_Probe
    \/ TA_Whole
    \/ SW_Start
    \/ SW_Extract
    \/ TA_Chunk
    \/ PF_WriteTrans
    \/ PF_Notes
    \/ PF_WriteNotes
    \/ Rerun

SpecFile == InitFile /\ [][NextFile]_vars

(***************************************************************************)
(* run_processing_loop on its own: the program is started without a target *)
(* and, being the only thread of a running process, keeps taking its next  *)
(* step as long as it has one                                              *)
(***************************************************************************)
NextLoop ==
    \/ CliLoop
    \/ Scan
    \/ ScanLoad
    \/ ScanCall
    \/ ScanFinish
    \/ LoopCheck
    \/ PF_Start
    \/ PF_Convert
    \/ TA_Probe
    \/ TA_Whole
    \/ SW_Start
    \/ SW_Extract
    \/ TA_Chunk
    \/ PF_WriteTrans
    \/ PF_Notes
    \/ PF_WriteNotes

SpecLoop == Init /\ [][NextLoop]_vars /\ WF_vars(NextLoop)

(***************************************************************************)
(* Any sequence of single-file runs, folder scans and loop runs on the     *)
(* same folder: the program ends and is started again in any of its modes  *)
(***************************************************************************)
\* the process has ended, whatever it was started for, and cli_main /
\* windows_entry.main is entered again
RerunAny ==
    /\ pc = "exit"
    /\ pc' = "idle"
    /\ run' = NoRun
    /\ scan' = NoScan
    /\ pf' = NoPF
    /\ ta' = NoTA
    /\ engine' = NoEngine
    /\ hist' = NoHist
    /\ UNCHANGED <<files, dirs, workspaces, now>>

NextRuns ==
    \/ CliFile
    \/ WindowsMain
    \/ CliDir
    \/ CliLoop
    \/ Scan
    \/ ScanLoad
    \/ ScanCall
    \/ ScanFinish
    \/ DirDone
    \/ LoopCheck
    \/ PF_StartFile
    \/ PF_Convert
    \/ PF_Load
    \/ TA_Probe
    \/ TA_Whole
    \/ SW_Start
    \/ SW_Extract
    \/ TA_Chunk
    \/ PF_WriteTrans
    \/ PF_Notes
    \/ PF_WriteNotes
    \/ RerunAny

SpecRuns == InitFile /\ [][NextRuns]_vars

(***************************************************************************)
(* Properties                                                              *)
(***************************************************************************)
\* frames of the k-th extracted chunk
ChunkFrames(c) == c.last - c.first

\* C1: for every duration d > m and chunk length m > 0, split_wav requests
\* max(1, ceil(d/m)) segments, segment i starting at i*m with nominal length m,
\* and the segments, the last one clipped to the tail, cover [0, d) with no gap,
\* no overlap and no empty trailing segment.
C1_SegmentsCoverAsset ==
    LET cp == ta.chunk_paths
        m == run.chunk_length_sec
        full == m * ta.framerate
    IN /\ \A k \in 1..Len(cp) : cp[k].ss = (k - 1) * m /\ cp[k].t = m
       /\ ta.split = "returned" =>
            /\ Len(cp) >= 1
            /\ (Len(cp) - 1) * full < ta.n_frames
            /\ ta.n_frames <= Len(cp) * full
            /\ cp[1].first = 0
            /\ cp[Len(cp)].last = ta.n_frames
            /\ \A k \in 1..(Len(cp) - 1) :
                  cp[k].last = cp[k + 1].first /\ ChunkFrames(cp[k]) = full
            /\ \A k \in 1..Len(cp) : 0 < ChunkFrames(cp[k]) /\ ChunkFrames(cp[k]) <= full

\* the scenario of the claim: 125 s in chunks of 40 s gives 40, 40, 40, 5
C1_Witness ==
    /\ ta.split = "returned"
    /\ ta.n_frames = 125 /\ ta.framerate = 1 /\ run.chunk_length_sec = 40
    /\ [k \in 1..Len(ta.chunk_paths) |-> ChunkFrames(ta.chunk_paths[k])] = <<40, 40, 40, 5>>

\* the texts the engine returned, in the order of the calls
CallTexts == [i \in 1..Len(ta.calls) |-> ta.calls[i].text]

\* where the k-th text starts in a transcript with one separator after each
\* of the texts before it
RECURSIVE TextOffset(_, _)
TextOffset(texts, k) ==
    IF k <= 1 THEN 0 ELSE TextOffset(texts, k - 1) + Len(texts[k - 1]) + 1

\* C2: on a chunked asset the engine is called on the segments in increasing
\* index order, one call at a time, and the transcript returned is the texts of
\* the calls in that order with a single newline between neighbours, empty texts
\* kept in place.
C2_TranscriptInSegmentOrder ==
    ta.split = "returned" =>
        /\ \A i \in 1..Len(ta.calls) : ta.calls[i].input = i
        /\ Len(ta.calls) <= Len(ta.chunk_paths)
        /\ pc = "pf_write_trans" =>
             LET T == CallTexts
                 K == Len(T)
                 out == pf.transcription
             IN /\ K = Len(ta.chunk_paths)
                /\ Len(out) = TextOffset(T, K) + Len(T[K])
                /\ \A k \in 1..K : \A i \in 1..Len(T[k]) : out[TextOffset(T, k) + i] = T[k][i]
                /\ \A k \in 2..K : out[TextOffset(T, k)] = "\n"

\* three segments, the middle one empty: "x", "", "x" gives x \n \n x
C2_Witness ==
    /\ pc = "pf_write_trans"
    /\ ta.split = "returned"
    /\ CallTexts = << <<"x">>, <<>>, <<"x">> >>
    /\ pf.transcription = <<"x", "\n", "\n", "x">>

\* an output of base_title: base_title, "_", a timestamp, the suffix
IsOutputOf(f, base_title, suffix) ==
    \E t \in 0..99 : f = base_title \o <<"_">> \o Timestamp(t) \o suffix

HasOutput(base_title, suffix) == \E f \in files : IsOutputOf(f, base_title, suffix)

C4_NoWorkspaceOutsideTranscribe ==
    pc \notin {"sw_extract", "ta_chunk"} => workspaces = {}

\* the engine raised on a segment and the workspace is gone
C4_Witness ==
    /\ pf.outcome = "raised"
    /\ pf.error = "engine"
    /\ ta.temp_dir # 0
    /\ ta.temp_dir \notin workspaces

\* C5: under skip_existing, a scan that follows a scan of the same folder, with
\* nothing but the pipeline touching the folder in between, processes nothing
\* (returns False).
C5_SecondScanProcessesNothing ==
    (/\ pc = "scan_done"
     /\ scan.skip_existing
     /\ hist.valid
     /\ hist.skip_existing) => ~scan.result

\* C6: an exception of one asset never aborts the scan: the candidates are
\* handed to process_file in enumeration order, an asset that raised leaves the
\* scan running, and a scan that got past the engine load returns only after it
\* handed over every candidate.
C6_FailureDoesNotAbortScan ==
    run.mode \in {"dir", "loop"} =>
        /\ scan.passed = SubSeq(scan.audio_files, 1, scan.idx)
        /\ pf.outcome = "raised" => pc = "scan_next" /\ scan.state = "running"
        /\ scan.state = "returned" => scan.passed = scan.audio_files
        /\ scan.state = "raised" => scan.passed = <<>>

\* the summarization raised for the first asset of a scan, which left its
\* transcription without notes
NotesFailedFor(p) ==
    /\ HasOutput(Stem(p), TransSuffix)
    /\ ~HasOutput(Stem(p), NotesSuffix)

\* the first asset raised and the second one is handed over
C6_Witness ==
    /\ run.mode = "dir"
    /\ pc = "pf_start"
    /\ scan.idx = 2
    /\ NotesFailedFor(scan.audio_files[1])
    /\ pf.input_path = scan.audio_files[2]

\* C7: run_processing_loop starts another scan after every scan that processed
\* something and halts right after the first scan that processed nothing.
C7_LoopUntilEmptyScan ==
    [][/\ (pc = "scan_done" /\ run.mode = "loop" /\ scan.result) =>
              (pc' = "scan" /\ run'.last = "none")
       /\ (pc = "scan_done" /\ run.mode = "loop" /\ ~scan.result) =>
              (pc' = "exit" /\ run'.last = "halted")
       /\ (run'.last = "halted" /\ run.last # "halted") =>
              (pc = "scan_done" /\ run.mode = "loop" /\ ~scan.result)]_vars

\* halted after a scan that processed nothing, which followed one that did
C7_Witness ==
    /\ run.last = "halted"
    /\ ~scan.result
    /\ hist.valid
    /\ hist.result

\* C8: in a folder scan the engine is loaded at most once, and not at all
\* without candidates; every asset gets the handle of the scan; process_file
\* never closes it; it stays open while the scan runs and is closed exactly
\* once when the scan ends.
C8_OneEnginePerScan ==
    run.mode \in {"dir", "loop"} =>
        /\ engine.loads <= 1
        /\ scan.audio_files = <<>> => engine.loads = 0
        /\ \A i \in 1..Len(scan.handles) :
              scan.handles[i] = scan.transcriber /\ scan.handles[i] # NoHandle
        /\ pf.outcome # "none" => pf.given = scan.transcriber
        /\ engine.pf_closes = 0
        /\ scan.state = "running" => engine.closes = 0 /\ engine.open = {scan.transcriber}
        /\ (scan.state = "returned" /\ scan.audio_files # <<>>) =>
              engine.loads = 1 /\ engine.closes = 1 /\ engine.open = {}

\* a scan over two assets, one of which raised and one of which was processed,
\* has ended
C8_Witness ==
    /\ run.mode = "dir"
    /\ scan.state = "returned"
    /\ Len(scan.audio_files) = 2
    /\ NotesFailedFor(scan.audio_files[1])
    /\ scan.processed_any
    /\ engine.closes = 1

\* C9: when the summarization call raises, the transcription file of the run
\* is already written and stays, no notes file is written, and the asset is
\* reported as failed: the exception leaves process_file, and a scan does not
\* count the asset as processed.
C9_SummarizationFailure ==
    [][(pc = "pf_notes" /\ pf'.error = "summarize") =>
          /\ pf.wrote_trans
          /\ pf.transcription_path \in files
          /\ files' = files
          /\ ~pf'.wrote_notes
          /\ pf'.outcome = "raised"
          /\ run.mode = "file" => run'.last = "crashed"
          /\ run.mode # "file" =>
                /\ scan'.processed_any = scan.processed_any
                /\ pc' = "scan_next"]_vars

\* in a folder scan the summarization raised for the only asset so far
C9_Witness ==
    /\ pf.error = "summarize"
    /\ run.mode = "dir"
    /\ pf.transcription_path \in files
    /\ pf.notes_path \notin files
    /\ ~scan.processed_any

\* C10: after transcoding succeeded, the temporary <input>.converted.wav does
\* not exist once process_file has exited, whatever the exit path.
C10_ConvertedWavRemoved ==
    (pf.converted /\ pf.outcome \in {"returned", "raised"}) => pf.wav_path \notin files

\* C11: a scan returns True only if at least one asset went through the whole
\* pipeline and returned its two paths; an asset that raised leaves
\* processed_any as it was, so a scan in which every asset that was not skipped
\* raised returns False; and an asset that has a transcription but no notes
\* after a failed summarization is not skipped by a later skip-mode scan: it is
\* attempted again.
C11_ProcessedMeansReturned ==
    [][/\ (scan'.processed_any /\ ~scan.processed_any) =>
              /\ pc = "pf_write_notes"
              /\ pf'.outcome = "returned"
              /\ {pf.transcription_path, pf.notes_path} \subseteq files'
       /\ (run.mode # "file" /\ pf.outcome = "running" /\ pf'.outcome = "raised") =>
              scan'.processed_any = scan.processed_any
       /\ (pc = "scan_next" /\ pc' = "scan_done") => scan'.result = scan.processed_any
       /\ (/\ pc = "pf_start"
           /\ pf.skip_existing
           /\ pf.input_path \in files
           /\ NotesFailedFor(pf.input_path)) => pc' = "pf_convert"]_vars

\* the suffixes of the modelled names that the allow-list accepts when the
\* case is ignored
AcceptedSuffixTokens == {".wav", ".WAV", ".mp3", ".MP3"}

\* C12: an input whose path is missing (or is not a regular file) or whose
\* extension, compared without regard to case, is not in the allow-list is
\* rejected by process_file before the transcoder, the speech engine or the
\* summarization is invoked and before any file is created; an existing file
\* with an allowed extension in any case is not rejected for these reasons.
C12_RejectedBeforeAnyEngine ==
    [][pc = "pf_start" =>
          IF pf.input_path \notin files \/ Suffix(pf.input_path) \notin AcceptedSuffixTokens
          THEN /\ pf'.outcome = "raised"
               /\ pf'.error = IF pf.input_path \notin files THEN "missing" ELSE "unsupported"
               /\ ~pf'.converted /\ ~pf'.wrote_trans /\ ~pf'.wrote_notes
               /\ pf'.transcriber = NoHandle
               /\ pc' \in {"exit", "scan_next"}
               /\ UNCHANGED <<files, dirs, workspaces, engine, ta>>
          ELSE pf'.error \notin {"missing", "unsupported"}]_vars

\* a text file and a path that does not exist were handed to a single-file
\* run and rejected with nothing loaded and nothing written
C12_Witness ==
    /\ run.mode = "file"
    /\ pc = "exit"
    /\ pf.input_path \in {A_txt, D_wav}
    /\ pf.error \in {"unsupported", "missing"}
    /\ engine.loads = 0
    /\ \A f \in files : f \in InitialNames

\* C13: a single-file run ignores the skip policy: process_file is called with
\* skip_existing false and never returns None, also when both outputs of the
\* base title exist; it returns after writing the two outputs named with the
\* timestamp taken at its start, or it raises.
C13_SingleFileNeverSkips ==
    run.mode = "file" =>
        /\ ~pf.skip_existing
        /\ pf.outcome \in {"running", "returned", "raised"}
        /\ pf.outcome = "running" <=> run.last = "none"
        /\ pf.outcome = "raised" <=> run.last = "crashed"
        /\ pf.outcome = "returned" <=> run.last = "returned"
        /\ pf.timestamp # <<>> => pf.timestamp = Timestamp(now)
        /\ pf.outcome = "returned" =>
              /\ pf.transcription_path =
                    Stem(pf.input_path) \o <<"_">> \o Timestamp(now) \o TransSuffix
              /\ pf.notes_path =
                    Stem(pf.input_path) \o <<"_">> \o Timestamp(now) \o NotesSuffix
              /\ pf.wrote_trans /\ pf.wrote_notes
              /\ {pf.transcription_path, pf.notes_path} \subseteq files

\* a single-file run returned at second 1 although both outputs of second 0
\* were there
C13_Witness ==
    /\ run.mode = "file"
    /\ run.last = "returned"
    /\ pf.timestamp = Timestamp(1)
    /\ TranscriptionPath(Stem(pf.input_path), Timestamp(0)) \in files
    /\ NotesPath(Stem(pf.input_path), Timestamp(0)) \in files

\* a name a scan must not hand to process_file: a transcoding artifact, an
\* output text file, a sub-directory, a file whose extension is not allowed
NotAnInput(f) ==
    \/ f \in dirs
    \/ f \notin files
    \/ f[Len(f)] \notin AcceptedSuffixTokens
    \/ (Len(f) >= 2 /\ f[Len(f) - 1] = ".converted" /\ f[Len(f)] = ".wav")
    \/ f[Len(f)] = ".txt"

\* C14: a folder scan never hands a transcoding artifact (a name ending in
\* .converted.wav), an output text file, a sub-directory or a file with an
\* extension outside the allow-list to process_file, in any scan of the loop,
\* also when the artifact was left behind by an earlier asset or scan.
C14_ScanNeverTakesArtifacts ==
    run.mode \in {"dir", "loop"} =>
        /\ \A i \in 1..Len(scan.audio_files) : ~NotAnInput(scan.audio_files[i])
        /\ \A i \in 1..Len(scan.passed) : ~NotAnInput(scan.passed[i])
        /\ pf.outcome # "none" => ~NotAnInput(pf.input_path)

\* a later scan of a loop has handed over all its candidates while the folder
\* holds outputs and an artifact that a failed transcoding of an earlier scan
\* left behind
C14_Witness ==
    /\ run.mode = "loop"
    /\ hist.valid
    /\ scan.state = "returned"
    /\ scan.passed # <<>>
    /\ A2_conv \in files
    /\ A_txt \notin files
    /\ \E f \in files : f[Len(f)] = ".txt"

\* C15: the sentinel notes text stands in only for a summarization reply whose
\* content is empty; the notes file is then still written and the asset counts
\* as processed; when the summarization call raises, the exception leaves
\* process_file and no notes file, with or without sentinel, is written.
C15_SentinelOnlyForEmptyContent ==
    [][/\ pc' = "pf_write_notes" =>
             pf'.notes = IF pf'.content = <<>> THEN <<"No notes generated.">> ELSE pf'.content
       /\ pc = "pf_write_notes" =>
             /\ files' = files \cup {pf.notes_path}
             /\ pf'.outcome = "returned"
             /\ run.mode # "file" => scan'.processed_any
             /\ run.mode = "file" => run'.last = "returned"
       /\ (pc = "pf_notes" /\ pc' # "pf_write_notes") =>
             /\ pf'.outcome = "raised"
             /\ pf'.error = "summarize"
             /\ files' = files
             /\ ~pf'.wrote_notes
             /\ run.mode = "file" => run'.last = "crashed"]_vars

\* the reply was empty and the sentinel is about to be written in a scan
C15_Witness ==
    /\ pc = "pf_write_notes"
    /\ run.mode = "dir"
    /\ pf.content = <<>>
    /\ pf.notes = <<"No notes generated.">>
    /\ pf.notes_path \notin files

\* C16: for either value of skip_existing, with the candidates of the folder
\* fixed and nothing but the pipeline touching it, run_processing_loop
\* eventually ends: it halts after a scan that processed nothing (or an
\* exception of the engine load ends it).
C16_LoopTerminates ==
    (run.mode = "loop") ~> (pc = "exit")

\* C17: in a loop with skip_existing an asset is processed successfully at most
\* once, which bounds the scans by the number of candidates plus one: once a
\* scan of the loop has left both outputs of an asset's base title, no later
\* scan goes past the skip decision for that asset.
C17_ProcessedAtMostOnce ==
    (/\ run.mode = "loop"
     /\ run.skip_existing
     /\ pc \in {"pf_convert", "pf_write_notes"}) =>
        ~(/\ HasOutput(Stem(pf.input_path), TransSuffix)
          /\ HasOutput(Stem(pf.input_path), NotesSuffix)
          /\ hist.valid)

\* the engine calls of a transcribe_audio that returns for a wave file of
\* n_frames at framerate and chunks of chunk_length_sec: one on the whole asset
\* when the probe failed or the duration is at most the chunk length, else one
\* per segment, ceil(duration / chunk_length_sec) of them
ExpectedInputs(n_frames, framerate, chunk_length_sec) ==
    IF framerate = 0 \/ n_frames <= chunk_length_sec * framerate
    THEN <<0>>
    ELSE LET K == CHOOSE k \in 1..n_frames :
                     /\ (k - 1) * chunk_length_sec * framerate < n_frames
                     /\ n_frames <= k * chunk_length_sec * framerate
         IN [i \in 1..K |-> i]

\* C18: transcribe_audio makes one engine call, on the whole asset, and creates
\* no workspace when the duration probe fails or the duration is less than or
\* equal to chunk_length_sec; otherwise it calls the engine on the segments
\* only, and a run that returns has made exactly ceil(duration /
\* chunk_length_sec) calls, one per segment.
C18_CallsPerAsset ==
    LET expected == ExpectedInputs(ta.n_frames, ta.framerate, run.chunk_length_sec)
        inputs == [i \in 1..Len(ta.calls) |-> ta.calls[i].input]
    IN /\ pc \in {"ta_whole", "sw_start", "sw_extract", "ta_chunk"} =>
             /\ Len(inputs) < Len(expected)
             /\ inputs = SubSeq(expected, 1, Len(inputs))
             /\ expected = <<0>> <=> pc = "ta_whole"
             /\ expected = <<0>> => ta.temp_dir = 0 /\ workspaces = {}
       /\ pc = "pf_write_trans" =>
             /\ inputs = expected
             /\ expected = <<0>> => ta.temp_dir = 0

\* a wave file of exactly chunk_length_sec seconds went to the engine whole
C18_Witness ==
    /\ pc = "pf_write_trans"
    /\ ta.framerate = 2
    /\ ta.n_frames = 2 * run.chunk_length_sec
    /\ Len(ta.calls) = 1
    /\ ta.calls[1].input = 0
    /\ ta.temp_dir = 0

\* C19: when the engine call on a segment raises, no later segment is
\* transcribed, the exception leaves transcribe_audio and process_file, no
\* transcript of the segments done so far is returned, and the run writes
\* neither a transcription file nor a notes file.
C19_SegmentFailureAborts ==
    [][(pc = "ta_chunk" /\ Len(ta'.calls) # Len(ta.calls) + 1) =>
          /\ pf'.outcome = "raised"
          /\ pf'.error = "engine"
          /\ pf'.transcription = <<>>
          /\ ~pf'.wrote_trans /\ ~pf'.wrote_notes
          /\ files' \subseteq files
          /\ pc' \in {"exit", "scan_next"}
          /\ ta'.calls = <<>> /\ ta'.texts = <<>>
          /\ ta.temp_dir \notin workspaces'
          /\ run.mode = "file" => run'.last = "crashed"
          /\ run.mode # "file" => scan'.processed_any = scan.processed_any]_vars

\* a single-file run ended with the exception of a segment's engine call and
\* wrote nothing
C19_Witness ==
    /\ run.mode = "file"
    /\ run.last = "crashed"
    /\ pf.error = "engine"
    /\ ta.temp_dir # 0
    /\ ~pf.wrote_trans
    /\ \A f \in files : f[Len(f)] # ".txt" \/ f = A_txt

\* C20: when the extraction of a segment fails in split_wav, no later segment
\* is extracted, the workspace is deleted, the exception propagates and no
\* segment list is returned, and the engine is not called on any segment of
\* the asset.
C20_ExtractionFailureAborts ==
    [][/\ (pc = "sw_extract" /\ Len(ta'.chunk_paths) # Len(ta.chunk_paths) + 1) =>
             /\ workspaces' = workspaces \ {ta.temp_dir}
             /\ pf'.outcome = "raised"
             /\ pf'.error = "segment"
             /\ ta'.chunk_paths = <<>>
             /\ ta'.split # "returned"
             /\ ta.calls = <<>> /\ ta'.calls = <<>>
             /\ pc' \in {"exit", "scan_next"}
       /\ pc = "sw_extract" => ta.calls = <<>>
       /\ pc' = "ta_chunk" =>
             /\ ta'.split = "returned"
             /\ Len(ta'.chunk_paths) = ta'.chunks_needed]_vars

\* in a folder scan an extraction failed after the workspace was made, the
\* workspace is gone and the scan goes on
C20_Witness ==
    /\ run.mode = "dir"
    /\ pc = "scan_next"
    /\ pf.outcome = "raised"
    /\ pf.error = "segment"
    /\ ta.temp_dir # 0
    /\ workspaces = {}

\* the folder held nothing but audio files when the program started: the
\* folders that held a transcoding artifact from the start hold a.txt as well,
\* which the pipeline neither creates nor removes
StartedWithAudioOnly == A_txt \notin files

\* C21: a scan runs strictly one thing after the other: at most one workspace
\* exists, and only while the one asset in progress is being segmented or
\* transcribed; between assets nothing is in progress; and when the next asset
\* is started every asset handed over before it has ended (skipped, processed
\* or failed) with its workspace and its temporary transcoded file gone.
C21_StrictlySequential ==
    run.mode \in {"dir", "loop"} =>
        /\ Cardinality(workspaces) <= 1
        /\ workspaces # {} =>
              /\ pc \in {"sw_extract", "ta_chunk"}
              /\ pf.outcome = "running"
              /\ workspaces = {ta.temp_dir}
        /\ pc \in {"scan_next", "scan_done"} =>
              pf.outcome \in {"none", "skipped", "returned", "raised"}
        /\ pc = "pf_start" =>
              /\ workspaces = {}
              /\ StartedWithAudioOnly =>
                    \A i \in 1..(Len(scan.passed) - 1) :
                       ConvertedName(scan.passed[i]) \notin files

\* the position of process_file and transcribe_audio in the order the code
\* runs through them
Stage(at) ==
    CASE at = "pf_start" -> 1
      [] at = "pf_convert" -> 2
      [] at = "pf_load" -> 3
      [] at = "ta_probe" -> 4
      [] at = "ta_whole" -> 5
      [] at = "sw_start" -> 5
      [] at = "sw_extract" -> 6
      [] at = "ta_chunk" -> 7
      [] at = "pf_write_trans" -> 8
      [] at = "pf_notes" -> 9
      [] at = "pf_write_notes" -> 10
      [] OTHER -> 0

\* C22: nothing is tried twice: a scan hands each candidate to process_file
\* exactly once; inside one asset every step moves on to a later stage, except
\* that the extraction loop and the segment loop each move on to the next
\* segment, so the transcoder call, each segment's engine call and the
\* summarization call are made at most once; and a call that failed ends the
\* asset instead of being made again.
C22_NoRetries ==
    [][/\ \A i, j \in 1..Len(scan'.passed) : scan'.passed[i] = scan'.passed[j] => i = j
       /\ scan'.state = "returned" => Len(scan'.passed) = Len(scan'.audio_files)
       /\ (Stage(pc) > 0 /\ Stage(pc') > 0) =>
             /\ pf'.input_path = pf.input_path
             /\ \/ Stage(pc') > Stage(pc)
                \/ /\ pc = "sw_extract" /\ pc' = "sw_extract"
                   /\ Len(ta'.chunk_paths) = Len(ta.chunk_paths) + 1
                \/ /\ pc = "ta_chunk" /\ pc' = "ta_chunk"
                   /\ Len(ta'.calls) = Len(ta.calls) + 1
                   /\ ta'.calls[Len(ta'.calls)].input = Len(ta'.calls)
       /\ (pf.outcome = "running" /\ pf'.outcome = "raised") =>
             /\ Stage(pc') = 0
             /\ pf'.input_path = pf.input_path
       /\ (Stage(pc) = 0 /\ Stage(pc') > 0) => pc' = "pf_start"]_vars

\* a scan has handed over both of its assets, the engine raised for the last
\* one, nothing was processed and nothing is left to hand over
C22_Witness ==
    /\ run.mode = "dir"
    /\ pc = "scan_next"
    /\ Len(scan.audio_files) = 2
    /\ Len(scan.passed) = 2
    /\ pf.input_path = scan.passed[2]
    /\ pf.error = "engine"
    /\ ~scan.processed_any

\* the name with its last two tokens, the output marker and ".txt", replaced
WithSuffix(f, suffix) == SubSeq(f, 1, Len(f) - 2) \o suffix

IsNotesFile(f) == Len(f) >= 2 /\ SubSeq(f, Len(f) - 1, Len(f)) = NotesSuffix

\* C23: after any sequence of single-file runs, folder scans and loop runs,
\* every notes file in the folder has beside it the transcription file of the
\* same base title and timestamp, so the (base title, timestamp) pairs with
\* notes are among those with a transcription; and process_file returns a
\* result if and only if the run wrote both of its files.
C23_NotesHaveTranscription ==
    /\ \A f \in files : IsNotesFile(f) => WithSuffix(f, TransSuffix) \in files
    /\ pf.outcome \in {"returned", "raised", "skipped"} =>
          (pf.outcome = "returned" <=> (pf.wrote_trans /\ pf.wrote_notes))
    /\ pf.wrote_notes => pf.wrote_trans
    /\ pf.wrote_trans => pf.transcription_path \in files
    /\ pf.wrote_notes => pf.notes_path \in files

\* in a folder scan that followed an earlier run, process_file failed in the
\* summarization after it wrote its transcription: the folder holds the pair
\* of second 0 and the transcription of second 1 without notes
C23_Witness ==
    /\ run.mode = "dir"
    /\ pc = "scan_next"
    /\ pf.error = "summarize"
    /\ pf.timestamp = Timestamp(1)
    /\ NotesPath(Stem(A2_MP3), Timestamp(0)) \in files
    /\ TranscriptionPath(Stem(A2_MP3), Timestamp(1)) \in files
    /\ NotesPath(Stem(A2_MP3), Timestamp(1)) \notin files

\* C24: the skip decision of an asset rests on the outputs of its own base
\* title only: in a skip-mode scan an asset without a transcription and notes
\* pair of its own is not skipped, also when another asset whose base title
\* extends it with an underscore ("a" and "a_2") has been processed.
C24_SkipOnlyOnOwnOutputs ==
    [][(/\ pc = "pf_start"
        /\ pf.skip_existing
        /\ ~(\E t \in 0..99 :
                /\ TranscriptionPath(Stem(pf.input_path), Timestamp(t)) \in files
                /\ NotesPath(Stem(pf.input_path), Timestamp(t)) \in files))
          => pf'.outcome # "skipped"]_vars

\* C25: skipping an asset changes nothing: when process_file skips, the
\* transcoder, the speech engine and the summarization are not invoked, no
\* temporary transcoded file and no workspace is made, and no file of the
\* folder is created or deleted; the scan moves on without counting the asset.
C25_SkipChangesNothing ==
    [][(pc = "pf_start" /\ pf'.outcome = "skipped") =>
          /\ UNCHANGED <<files, dirs, workspaces, engine, ta, now>>
          /\ pf' = [pf EXCEPT !.outcome = "skipped"]
          /\ pf'.wav_path = NoPath /\ ~pf'.converted
          /\ pf'.timestamp = <<>> /\ pf'.transcription_path = NoPath
          /\ ~pf'.wrote_trans /\ ~pf'.wrote_notes
          /\ pf.skip_existing
          /\ pc' = "scan_next"
          /\ scan'.processed_any = scan.processed_any]_vars

\* the transcoded asset a_2.MP3 was skipped in a scan and the folder holds no
\* transcoding artifact
C25_Witness ==
    /\ pf.outcome = "skipped"
    /\ pf.input_path = A2_MP3
    /\ pc = "scan_next"
    /\ A2_conv \notin files
    /\ workspaces = {}

\* C26: the pipeline never deletes or overwrites the source audio file: the
\* only file a step removes is the wave file that the transcoding of the
\* running process_file made, which is not its input; the only audio name a
\* step writes is that same name; so the input, also one that is a .wav file
\* already or is named *.converted.wav, is still there when process_file has
\* returned or raised.
C26_SourceNeverDeleted ==
    [][/\ \A f \in files \ files' :
             /\ pf.converted
             /\ pf.should_cleanup_wav
             /\ f = pf.wav_path
             /\ f = pf.input_path \o <<".converted", ".wav">>
       /\ \A f \in files' \ files :
             \/ f[Len(f)] = ".txt"
             \/ f = pf.input_path \o <<".converted", ".wav">>
       /\ (pf.outcome = "running" /\ pf.input_path \in files) => pf.input_path \in files'
       /\ (pf'.outcome \in {"returned", "skipped"}) => pf'.input_path \in files'
       /\ (pf'.outcome = "raised" /\ pf'.error # "missing") => pf'.input_path \in files']_vars

\* a single-file run on the file named a_2.MP3.converted.wav has returned and
\* the file is still there
C26_Witness ==
    /\ run.mode = "file"
    /\ run.last = "returned"
    /\ pf.input_path = A2_conv
    /\ pf.wav_path = A2_conv
    /\ A2_conv \in files

====
